---- MODULE Spec2Model ----
(***************************************************************************)
(* State-machine model of the Tesla Outrun simulation core.                *)
(*                                                                         *)
(* Two builds of the game are modelled, selected by `variant`:             *)
(*   "lives"  - src/src/lib/TeslaOutrun.svelte (lives, pause, jump)        *)
(*   "simple" - src/unnamed/part_000 (any collision ends the session)      *)
(*                                                                         *)
(* Numbers are fixed-point.  Lengths, speeds and the score are kept in     *)
(* hundredths of the source's unit, times in milliseconds.  A product or   *)
(* quotient that leaves the grid is rounded to the nearest grid point      *)
(* (Round), where the source rounds to the nearest double.                 *)
(***************************************************************************)
EXTENDS Integers, Sequences, FiniteSets, Bags, TLC

VARIABLES
    variant,            \* which build is running
    score, speed, gameActive, lane, elapsedTime, lastObstacleTime,
    carsOvertaken, lives,
    isJumping, jumpHeight, jumpVelocity,
    isPaused,
    player,             \* player.position: [x, y, z]
    obstacles,          \* live obstacles in spawn order
    roadSegments, roadStripes, trees, buildings,   \* tracked scenery z's
    startScreen, gameOverScreen, highScoreScreen,  \* overlays that are shown
    finalScore,         \* the number shown in #final-score
    highScores,         \* the high-score list in memory
    stored,             \* localStorage item 'teslaOutrunHighScores'
    mounted,            \* init() has run to its end: clock, loop, key listener
    frames,             \* history: updateGame calls so far
    keys,               \* history: keydown events since the last frame
    nextId,             \* history: identity of the next obstacle object
    jumpFrames,         \* history: frames that integrated the current jump
    pool,               \* history: scores loaded or submitted, with their counts
    last                \* history: the step just taken and what it observed

progVars == << variant, score, speed, gameActive, lane, elapsedTime,
               lastObstacleTime, carsOvertaken, lives, isJumping, jumpHeight,
               jumpVelocity, isPaused, player, obstacles, roadSegments,
               roadStripes, trees, buildings, startScreen, gameOverScreen,
               highScoreScreen, finalScore, highScores, stored,
               mounted >>

vars == << progVars, frames, keys, nextId, jumpFrames, pool, last >>

-----------------------------------------------------------------------------
(* Bounds of the exploration *)

MaxFrames == 3          \* updateGame calls of a run of Spec
MaxSessionFrames == 6   \* ... of SpecSession
MaxJumpFrames == 36     \* ... of SpecJump
MaxSessionScores == 2   \* high-score entries of a run of SpecSession

-----------------------------------------------------------------------------
(* Program constants (hundredths of a unit; milliseconds) *)

maxSpeed == 50000
acceleration == 200
brakeForce == 500
roadLength == 200000
segmentLength == 2000
cameraDistance == -1500
obstacleInterval == 2000
initialLives == 3
jumpGravity == 1
maxJumpHeight == 500
jumpInitialVelocity == 1500
jumpImmunity == 200
overtakeBonus == 10000
playerWidth == 300
playerHeight == 600
obstacleWidth == 300
obstacleHeight == 500
obstacleY == 100
carHeight == 200

lanePositions == << -400, 0, 400 >>

Variants == { "lives", "simple" }
Kinds == { "car", "barrier", "rocket" }

\* n/d rounded to the nearest integer (halves up); d > 0
Round(n, d) == (2 * n + d) \div (2 * d)

Max(a, b) == IF a > b THEN a ELSE b
Min(a, b) == IF a < b THEN a ELSE b

\* speed *= deceleration, deceleration = 0.95
Decelerate(v) == Round(v * 95, 100)

\* v * dt for a rate v per second and dt in milliseconds, rounded; the whole
\* seconds and the rest are multiplied apart, which keeps every product
\* inside the checker's 32-bit integers without changing the result
PerSecond(v, dt) ==
    v * (dt \div 1000) + Round(v * (dt % 1000), 1000)

\* v * dt / 10, as PerSecond
PerSecondTenth(v, dt) ==
    LET whole == v * (dt \div 1000)
    IN  (whole \div 10) + Round(1000 * (whole % 10) + v * (dt % 1000), 10000)

-----------------------------------------------------------------------------
(* The program state as one record, so that the stages of a frame compose *)

State ==
    [ variant |-> variant, score |-> score, speed |-> speed,
      gameActive |-> gameActive, lane |-> lane, elapsedTime |-> elapsedTime,
      lastObstacleTime |-> lastObstacleTime, carsOvertaken |-> carsOvertaken,
      lives |-> lives, isJumping |-> isJumping, jumpHeight |-> jumpHeight,
      jumpVelocity |-> jumpVelocity, isPaused |-> isPaused, player |-> player,
      obstacles |-> obstacles, roadSegments |-> roadSegments,
      roadStripes |-> roadStripes, trees |-> trees, buildings |-> buildings,
      startScreen |-> startScreen, gameOverScreen |-> gameOverScreen,
      highScoreScreen |-> highScoreScreen, finalScore |-> finalScore,
      highScores |-> highScores,
      stored |-> stored, mounted |-> mounted, nextId |-> nextId,
      chk |-> [ ran |-> FALSE, immune |-> FALSE, overlap |-> {}, hit |-> 0,
                passed |-> {} ] ]

Install(s) ==
    /\ variant' = s.variant
    /\ score' = s.score
    /\ speed' = s.speed
    /\ gameActive' = s.gameActive
    /\ lane' = s.lane
    /\ elapsedTime' = s.elapsedTime
    /\ lastObstacleTime' = s.lastObstacleTime
    /\ carsOvertaken' = s.carsOvertaken
    /\ lives' = s.lives
    /\ isJumping' = s.isJumping
    /\ jumpHeight' = s.jumpHeight
    /\ jumpVelocity' = s.jumpVelocity
    /\ isPaused' = s.isPaused
    /\ player' = s.player
    /\ finalScore' = s.finalScore
    /\ obstacles' = s.obstacles
    /\ roadSegments' = s.roadSegments
    /\ roadStripes' = s.roadStripes
    /\ trees' = s.trees
    /\ buildings' = s.buildings
    /\ startScreen' = s.startScreen
    /\ gameOverScreen' = s.gameOverScreen
    /\ highScoreScreen' = s.highScoreScreen
    /\ highScores' = s.highScores
    /\ stored' = s.stored
    /\ mounted' = s.mounted
    /\ nextId' = s.nextId

\* The session state of section 4.6, read off the flags the code keeps
SessionOf(s) ==
    IF s.gameActive
    THEN IF s.isPaused THEN "Paused" ELSE "Running"
    ELSE IF s.gameOverScreen \/ s.highScoreScreen THEN "GameOver" ELSE "Idle"

Session == SessionOf(State)

-----------------------------------------------------------------------------
(* updateGame, stage by stage *)

\* elapsedTime += deltaTime
AdvanceTime(s, dt) == [ s EXCEPT !.elapsedTime = @ + dt ]

\* the speed stage with the deceleration applied before the acceleration
UpdateSpeedDecelFirst(s) ==
    LET decelerated == Decelerate(s.speed)
        accelerated == IF s.speed * 10 < maxSpeed * 4
                       THEN decelerated + acceleration ELSE decelerated
    IN  [ s EXCEPT !.speed = Max(0, Min(maxSpeed, accelerated)) ]

\* auto-accelerate below 40% of maxSpeed, decelerate, clamp
UpdateSpeed(s) ==
    LET accelerated == IF s.speed * 10 < maxSpeed * 4
                       THEN s.speed + acceleration ELSE s.speed
        decelerated == Decelerate(accelerated)
    IN  [ s EXCEPT !.speed = Max(0, Min(maxSpeed, decelerated)) ]

\* UpdateJump without the pull of gravity on the velocity
UpdateJumpNoGravity(s) ==
    IF s.isJumping
    THEN LET h1 == s.jumpHeight + s.jumpVelocity
             capped == h1 > maxJumpHeight
             h2 == IF capped THEN maxJumpHeight ELSE h1
             landed == h2 <= 0
             h3 == IF landed THEN 0 ELSE h2
         IN  [ s EXCEPT !.isJumping = ~landed,
                        !.jumpHeight = h3,
                        !.jumpVelocity = IF landed \/ capped THEN 0 ELSE @,
                        !.player = [ @ EXCEPT !.y = h3 ] ]
    ELSE [ s EXCEPT !.player = [ @ EXCEPT !.y = 0 ] ]

\* the jump stage without the cap on the jump height
UpdateJumpNoCap(s) ==
    IF s.isJumping
    THEN LET h1 == s.jumpHeight + s.jumpVelocity
             v1 == s.jumpVelocity - jumpGravity
             landed == h1 <= 0
             h3 == IF landed THEN 0 ELSE h1
         IN  [ s EXCEPT !.isJumping = ~landed,
                        !.jumpHeight = h3,
                        !.jumpVelocity = IF landed THEN 0 ELSE v1,
                        !.player = [ @ EXCEPT !.y = h3 ] ]
    ELSE [ s EXCEPT !.player = [ @ EXCEPT !.y = 0 ] ]

\* explicit Euler step of the jump, soft cap, landing ("lives" build only)
UpdateJump(s) ==
    IF s.isJumping
    THEN LET h1 == s.jumpHeight + s.jumpVelocity
             v1 == s.jumpVelocity - jumpGravity
             capped == h1 > maxJumpHeight
             h2 == IF capped THEN maxJumpHeight ELSE h1
             v2 == IF capped THEN 0 ELSE v1
             landed == h2 <= 0
             h3 == IF landed THEN 0 ELSE h2
         IN  [ s EXCEPT !.isJumping = ~landed,
                        !.jumpHeight = h3,
                        !.jumpVelocity = IF landed THEN 0 ELSE v2,
                        !.player = [ @ EXCEPT !.y = h3 ] ]
    ELSE [ s EXCEPT !.player = [ @ EXCEPT !.y = 0 ] ]

\* player.position.x += (targetX - player.position.x) * 0.1
EaseLane(s) ==
    LET targetX == lanePositions[s.lane + 1]
    IN  [ s EXCEPT !.player =
              [ @ EXCEPT !.x = @ + Round(targetX - s.player.x, 10) ] ]

\* OverlapsXZ with the last comparison against the wrong edge of the obstacle
OverlapsXZBackEdge(s, o) ==
    /\ 2 * s.player.x + playerWidth > 2 * o.x - obstacleWidth
    /\ 2 * s.player.x - playerWidth < 2 * o.x + obstacleWidth
    /\ 2 * s.player.z + playerHeight > 2 * o.z - obstacleHeight
    /\ 2 * s.player.z - playerHeight < 2 * o.z - obstacleHeight

\* the x and z comparisons of checkCollisions for one obstacle; every side
\* is doubled, so that the half extents stay on the grid
OverlapsXZ(s, o) ==
    LET playerLeft == 2 * s.player.x - playerWidth
        playerRight == 2 * s.player.x + playerWidth
        playerFront == 2 * s.player.z + playerHeight
        playerBack == 2 * s.player.z - playerHeight
        obstacleLeft == 2 * o.x - obstacleWidth
        obstacleRight == 2 * o.x + obstacleWidth
        obstacleFront == 2 * o.z + obstacleHeight
        obstacleBack == 2 * o.z - obstacleHeight
    IN  /\ playerRight > obstacleLeft
        /\ playerLeft < obstacleRight
        /\ playerFront > obstacleBack
        /\ playerBack < obstacleFront

\* the whole overlap test: the "lives" build also compares the heights
Overlaps(s, o) ==
    LET playerBottom == s.player.y
        playerTop == s.player.y + carHeight
        obstacleBottom == obstacleY
        obstacleTop == obstacleY + carHeight
    IN  /\ OverlapsXZ(s, o)
        /\ s.variant = "lives" =>
              (playerTop > obstacleBottom /\ playerBottom < obstacleTop)

RemoveAt(seq, i) == SubSeq(seq, 1, i - 1) \o SubSeq(seq, i + 1, Len(seq))

\* gameOver(): the session ends, the final-score text is Math.floor(score),
\* and the game-over overlay is shown
GameOver(s) ==
    [ s EXCEPT !.gameActive = FALSE,
               !.finalScore = s.score \div 100,
               !.gameOverScreen = TRUE ]

\* handleCollision that ends the session one collision late
HandleCollisionLate(s, i) ==
    LET s1 == [ s EXCEPT !.obstacles = RemoveAt(@, i),
                         !.lives = @ - 1,
                         !.isPaused = TRUE ]
    IN  IF s1.lives < 0 THEN GameOver(s1) ELSE s1

\* handleCollision(obstacle) of the "lives" build
HandleCollision(s, i) ==
    LET s1 == [ s EXCEPT !.obstacles = RemoveAt(@, i),
                         !.lives = @ - 1,
                         !.isPaused = TRUE ]
    IN  IF s1.lives <= 0 THEN GameOver(s1) ELSE s1

\* checkCollisions as the build without a jump has it: no early return for
\* a jump, no comparison of heights
CheckCollisionsNoJump(s) ==
    LET hits == { j \in 1..Len(s.obstacles) : OverlapsXZ(s, s.obstacles[j]) }
        seen == { s.obstacles[j].id : j \in hits }
    IN  IF hits = {}
        THEN [ s EXCEPT !.chk = [ ran |-> TRUE, immune |-> FALSE,
                                  overlap |-> seen, hit |-> 0,
                                  passed |-> {} ] ]
        ELSE LET i == CHOOSE j \in hits : \A k \in hits : j <= k
                 s1 == [ s EXCEPT !.chk = [ ran |-> TRUE, immune |-> FALSE,
                                            overlap |-> seen,
                                            hit |-> s.obstacles[i].id,
                                            passed |-> {} ] ]
             IN  IF s.variant = "lives"
                 THEN HandleCollision(s1, i) ELSE GameOver(s1)

\* jump immunity: the early return of checkCollisions ("lives" build only)
Immune(s) == s.variant = "lives" /\ s.isJumping /\ s.jumpHeight > jumpImmunity

\* index of the last overlapping obstacle, 0 when there is none
LastHit(s) ==
    LET hits == { i \in 1..Len(s.obstacles) : Overlaps(s, s.obstacles[i]) }
    IN  IF hits = {} THEN 0 ELSE CHOOSE i \in hits : \A j \in hits : i >= j

\* index of the first overlapping obstacle, 0 when there is none
FirstHit(s) ==
    LET hits == { i \in 1..Len(s.obstacles) : Overlaps(s, s.obstacles[i]) }
    IN  IF hits = {} THEN 0 ELSE CHOOSE i \in hits : \A j \in hits : i <= j

CheckCollisions(s) ==
    LET seen == { s.obstacles[i].id : i \in
                    { j \in 1..Len(s.obstacles) : OverlapsXZ(s, s.obstacles[j]) } }
        i == FirstHit(s)
    IN  IF Immune(s)
        THEN [ s EXCEPT !.chk = [ ran |-> TRUE, immune |-> TRUE,
                                  overlap |-> seen, hit |-> 0,
                                  passed |-> {} ] ]
        ELSE IF i = 0
        THEN [ s EXCEPT !.chk = [ ran |-> TRUE, immune |-> FALSE,
                                  overlap |-> seen, hit |-> 0,
                                  passed |-> {} ] ]
        ELSE LET s1 == [ s EXCEPT !.chk = [ ran |-> TRUE, immune |-> FALSE,
                                            overlap |-> seen,
                                            hit |-> s.obstacles[i].id,
                                            passed |-> {} ] ]
             IN  IF s.variant = "lives"
                 THEN HandleCollision(s1, i) ELSE GameOver(s1)

\* the test of updateScore without the overtaken flag
CreditedAgain(s, o) ==
    /\ o.kind \in { "car", "rocket" }
    /\ o.z < s.player.z

\* an obstacle that updateScore credits in this call
Credited(s, o) ==
    /\ o.kind \in { "car", "rocket" }
    /\ ~o.overtaken
    /\ o.z < s.player.z

UpdateScore(s, dt) ==
    LET n == Cardinality({ i \in 1..Len(s.obstacles) :
                             Credited(s, s.obstacles[i]) })
        flagged == { i \in 1..Len(s.obstacles) :
                       /\ s.obstacles[i].overtaken
                       /\ s.obstacles[i].z < s.player.z }
    IN  [ s EXCEPT
            !.chk = [ @ EXCEPT !.passed =
                        { s.obstacles[i].id : i \in flagged } ],
            !.score = @ + PerSecondTenth(s.speed, dt) + overtakeBonus * n,
            !.carsOvertaken = @ + n,
            !.obstacles = [ i \in 1..Len(s.obstacles) |->
                              IF Credited(s, s.obstacles[i])
                              THEN [ s.obstacles[i] EXCEPT !.overtaken = TRUE ]
                              ELSE s.obstacles[i] ] ]

\* const moveDistance = speed * deltaTime
MoveDistance(s, dt) == PerSecond(s.speed, dt)

\* the removal test that keeps every obstacle, however far behind the camera
KeepAll(o) == TRUE

Keep(o) == ~(o.z < cameraDistance)

MoveObstacles(s, move) ==
    LET moved == [ i \in 1..Len(s.obstacles) |->
                     [ s.obstacles[i] EXCEPT !.z = @ - move ] ]
    IN  [ s EXCEPT !.obstacles = SelectSeq(moved, Keep) ]

\* spawnObstacle(): lane and category are the draws of Math.random()
SpawnObstacle(s, sp) ==
    [ s EXCEPT !.obstacles = Append(@,
                   [ id |-> s.nextId, x |-> lanePositions[sp.lane + 1],
                     z |-> roadLength \div 2, kind |-> sp.kind,
                     overtaken |-> FALSE ]),
               !.nextId = @ + 1 ]

\* the spawn gate with the fixed interval, whatever the speed
SpawnDueFixed(s) == s.elapsedTime - s.lastObstacleTime > obstacleInterval

\* elapsedTime - lastObstacleTime >
\*     obstacleInterval - (speed / maxSpeed) * (obstacleInterval - 0.5)
SpawnDue(s) ==
    (s.elapsedTime - s.lastObstacleTime) * (maxSpeed \div 500) >
        obstacleInterval * (maxSpeed \div 500)
            - (s.speed * (obstacleInterval - 500)) \div 500

SpawnCheck(s, sp) ==
    IF SpawnDue(s)
    THEN [ SpawnObstacle(s, sp) EXCEPT !.lastObstacleTime = s.elapsedTime ]
    ELSE s

\* road segments and stripes: scroll, then recycle by one road length
RecycleSegment(z, move) ==
    IF z - move < cameraDistance - segmentLength \div 2
    THEN z - move + roadLength ELSE z - move

RecycleStripe(z, move) ==
    IF z - move < cameraDistance - 2000
    THEN z - move + roadLength ELSE z - move

\* trees and buildings: scroll, then "reset" by roadLength + (cameraDistance - z)
ResetScenery(z, move) ==
    IF z - move < cameraDistance - 2000
    THEN (z - move) + (roadLength + (cameraDistance - (z - move)))
    ELSE z - move

MoveScenery(s, move) ==
    [ s EXCEPT
        !.roadSegments = [ i \in 1..Len(@) |-> RecycleSegment(@[i], move) ],
        !.roadStripes = [ i \in 1..Len(@) |-> RecycleStripe(@[i], move) ],
        !.trees = [ i \in 1..Len(@) |-> ResetScenery(@[i], move) ],
        !.buildings = [ i \in 1..Len(@) |-> ResetScenery(@[i], move) ] ]

\* the stages in the order obstacle scroll, spawn check, collision check,
\* score update
RunFrameScrollFirst(s, dt, sp) ==
    LET s1 == UpdateSpeed(s)
        s2 == IF s.variant = "lives" THEN UpdateJump(s1) ELSE s1
        s3 == EaseLane(s2)
        move == MoveDistance(s3, dt)
        s4 == MoveObstacles(s3, move)
        s5 == SpawnCheck(s4, sp)
        s6 == CheckCollisions(s5)
        s7 == UpdateScore(s6, dt)
    IN  MoveScenery(s7, move)

\* everything of updateGame that follows the pause check
RunFrame(s, dt, sp) ==
    LET s1 == UpdateSpeed(s)
        s2 == IF s.variant = "lives" THEN UpdateJump(s1) ELSE s1
        s3 == EaseLane(s2)
        s4 == CheckCollisions(s3)
        s5 == UpdateScore(s4, dt)
        move == MoveDistance(s5, dt)
        s6 == MoveObstacles(s5, move)
        s7 == SpawnCheck(s6, sp)
    IN  MoveScenery(s7, move)

\* updateGame without the early return of a paused session
UpdateGameNoPause(s, dt, sp) == RunFrame(AdvanceTime(s, dt), dt, sp)

\* updateGame(deltaTime)
UpdateGame(s, dt, sp) ==
    LET s0 == AdvanceTime(s, dt)
    IN  IF s0.variant = "lives" /\ s0.isPaused THEN s0 ELSE RunFrame(s0, dt, sp)

-----------------------------------------------------------------------------
(* The handlers *)

NoCheck == [ ran |-> FALSE, immune |-> FALSE, overlap |-> {}, hit |-> 0,
             passed |-> {} ]

Did(op, key, dt, chk) ==
    last' = [ op |-> op, key |-> key, pre |-> Session, dt |-> dt, chk |-> chk ]

\* startGame without `lives = 3`
StartGameKeepsLives(s) ==
    [ s EXCEPT !.startScreen = FALSE,
               !.highScoreScreen = IF s.variant = "lives" THEN FALSE ELSE @,
               !.gameActive = TRUE,
               !.speed = 0,
               !.score = 0,
               !.carsOvertaken = 0,
               !.elapsedTime = 0,
               !.lastObstacleTime = 0 ]

\* startGame()
StartGameOn(s) ==
    LET s1 == [ s EXCEPT !.startScreen = FALSE,
                         !.highScoreScreen =
                             IF s.variant = "lives" THEN FALSE ELSE @,
                         !.gameActive = TRUE,
                         !.speed = 0,
                         !.score = 0,
                         !.carsOvertaken = 0,
                         !.elapsedTime = 0,
                         !.lastObstacleTime = 0 ]
    IN  IF s.variant = "lives" THEN [ s1 EXCEPT !.lives = initialLives ] ELSE s1

\* restartGame that leaves the obstacles of the last session on the road
RestartKeepsObstacles(s) ==
    StartGameOn([ s EXCEPT !.player = [ x |-> 0, y |-> 0, z |-> 0 ],
                           !.lane = 1,
                           !.gameOverScreen = FALSE,
                           !.highScoreScreen =
                               IF s.variant = "lives" THEN FALSE ELSE @ ])

\* restartGame()
RestartGameOn(s) ==
    StartGameOn([ s EXCEPT !.obstacles = << >>,
                           !.player = [ x |-> 0, y |-> 0, z |-> 0 ],
                           !.lane = 1,
                           !.gameOverScreen = FALSE,
                           !.highScoreScreen =
                               IF s.variant = "lives" THEN FALSE ELSE @ ])

\* the jump of onKeyDown without its test of the jump flag
StartJumpAgain(s) ==
    [ s EXCEPT !.isJumping = TRUE,
               !.jumpVelocity = jumpInitialVelocity,
               !.jumpHeight = 0 ]

\* the keys of the switch in onKeyDown
StartJump(s) ==
    IF ~s.isJumping
    THEN [ s EXCEPT !.isJumping = TRUE,
                    !.jumpVelocity = jumpInitialVelocity,
                    !.jumpHeight = 0 ]
    ELSE s

Brake(s) == [ s EXCEPT !.speed = Max(0, @ - brakeForce * 5) ]

\* the throttle of onKeyDown without Math.min
ThrottleNoClamp(s) == [ s EXCEPT !.speed = @ + acceleration * 5 ]

Throttle(s) == [ s EXCEPT !.speed = Min(maxSpeed, @ + acceleration * 5) ]

\* the switch of onKeyDown without the tests of the lane bounds
KeySwitchNoBound(s, key) ==
    CASE key = "ArrowRight" -> [ s EXCEPT !.lane = @ - 1 ]
      [] key = "ArrowLeft"  -> [ s EXCEPT !.lane = @ + 1 ]
      [] key = "ArrowUp"    -> Throttle(s)
      [] key = "ArrowDown"  -> Brake(s)
      [] key = " "          -> IF s.variant = "lives"
                               THEN StartJump(Brake(s)) ELSE Brake(s)
      [] key = "j"          -> IF s.variant = "lives" THEN StartJump(s) ELSE s
      [] OTHER              -> s

KeySwitch(s, key) ==
    CASE key = "ArrowRight" -> IF s.lane > 0 THEN [ s EXCEPT !.lane = @ - 1 ] ELSE s
      [] key = "ArrowLeft"  -> IF s.lane < 2 THEN [ s EXCEPT !.lane = @ + 1 ] ELSE s
      [] key = "ArrowUp"    -> Throttle(s)
      [] key = "ArrowDown"  -> Brake(s)
      [] key = " "          -> IF s.variant = "lives"
                               THEN StartJump(Brake(s)) ELSE Brake(s)
      [] key = "j"          -> IF s.variant = "lives" THEN StartJump(s) ELSE s
      [] OTHER              -> s

\* onKeyDown whose resume branch does not return before the switch
OnKeyDownResumeFalls(s, key) ==
    IF s.variant = "lives"
    THEN IF ~s.gameActive /\ ~s.isPaused THEN s
         ELSE IF s.isPaused /\ key = " "
         THEN KeySwitch([ s EXCEPT !.isPaused = FALSE ], key)
         ELSE IF s.isPaused THEN s
         ELSE KeySwitch(s, key)
    ELSE IF ~s.gameActive THEN s ELSE KeySwitch(s, key)

\* onKeyDown(event)
OnKeyDownOn(s, key) ==
    IF s.variant = "lives"
    THEN IF ~s.gameActive /\ ~s.isPaused THEN s
         ELSE IF s.isPaused /\ key = " " THEN [ s EXCEPT !.isPaused = FALSE ]
         ELSE IF s.isPaused THEN s
         ELSE KeySwitch(s, key)
    ELSE IF ~s.gameActive THEN s ELSE KeySwitch(s, key)

\* animate() that calls updateGame whether or not the game is active
AnimateAlways(s, dt, sp) == UpdateGame(s, dt, sp)

\* animate(): one animation frame with clock.getDelta() = dt
AnimateOn(s, dt, sp) == IF s.gameActive THEN UpdateGame(s, dt, sp) ELSE s

-----------------------------------------------------------------------------
(* The high-score list and its copy in localStorage *)

maxHighScores == 5

\* the stored item: none, text that JSON.parse rejects, or a list of entries
NoStore == [ kind |-> "none", list |-> << >> ]
BadStore == [ kind |-> "corrupt", list |-> << >> ]
ListStore(list) == [ kind |-> "list", list |-> list ]

\* loadHighScores(): the list that is in memory after init()
LoadedScores(st) == IF st.kind = "list" THEN st.list ELSE << >>

\* JSON.parse throws on text it rejects, nothing catches it, and init() ends
\* at the call of loadHighScores()
LoadCompletes(st) == st.kind # "corrupt"

\* Math.floor(score)
Floor(v) == v \div 100

\* the sort of saveHighScore with the comparison turned round
InsertAsc(sorted, e) ==
    LET k == Cardinality({ i \in DOMAIN sorted : sorted[i].score <= e.score })
    IN  SubSeq(sorted, 1, k) \o << e >> \o SubSeq(sorted, k + 1, Len(sorted))

\* Array.prototype.sort with (a, b) => b.score - a.score, which is stable
InsertDesc(sorted, e) ==
    LET k == Cardinality({ i \in DOMAIN sorted : sorted[i].score >= e.score })
    IN  SubSeq(sorted, 1, k) \o << e >> \o SubSeq(sorted, k + 1, Len(sorted))

RECURSIVE SortDesc(_)
SortDesc(seq) ==
    IF seq = << >> THEN << >>
    ELSE InsertDesc(SortDesc(SubSeq(seq, 1, Len(seq) - 1)), seq[Len(seq)])

\* saveHighScore(name, score); written says whether setItem returns
SaveHighScoreOn(s, name, sc, written) ==
    LET pushed == Append(s.highScores, [ name |-> name, score |-> Floor(sc) ])
        sorted == SortDesc(pushed)
        kept == IF Len(sorted) > maxHighScores
                THEN SubSeq(sorted, 1, maxHighScores) ELSE sorted
    IN  [ s EXCEPT !.highScores = kept,
                   !.stored = IF written THEN ListStore(kept) ELSE @ ]

\* showHighScoreList()
ShowHighScoreList(s) ==
    [ s EXCEPT !.gameOverScreen = FALSE, !.highScoreScreen = TRUE ]

\* submitHighScore(): a setItem that throws ends the handler in saveHighScore
SubmitHighScoreOn(s, name, written) ==
    IF name = "" THEN s
    ELSE LET s1 == SaveHighScoreOn(s, name, s.score, written)
         IN  IF written THEN ShowHighScoreList(s1) ELSE s1

\* the scores of a list, with their counts
ScoreBag(list) ==
    [ v \in { list[i].score : i \in DOMAIN list } |->
        Cardinality({ i \in DOMAIN list : list[i].score = v }) ]

Names == { "", "ann" }

AllKeys == { "ArrowRight", "ArrowLeft", "ArrowUp", "ArrowDown", " ", "j" }

-----------------------------------------------------------------------------
(* Actions *)

\* the state after onMount, for the stored items of Stores
InitWith(Stores) ==
    /\ variant \in Variants
    /\ stored \in IF variant = "lives" THEN Stores ELSE { NoStore }
    /\ highScores = LoadedScores(stored)
    /\ mounted = LoadCompletes(stored)
    /\ pool = ScoreBag(highScores)
    /\ score = 0 /\ speed = 0 /\ gameActive = FALSE /\ lane = 1
    /\ elapsedTime = 0 /\ lastObstacleTime = 0 /\ carsOvertaken = 0
    /\ lives = initialLives
    /\ isJumping = FALSE /\ jumpHeight = 0 /\ jumpVelocity = 0
    /\ isPaused = FALSE
    /\ finalScore = 0
    /\ player = [ x |-> 0, y |-> 0, z |-> 0 ]
    /\ obstacles = << >>
    /\ roadSegments = << 0, 198000 >>
    /\ roadStripes = IF variant = "lives" THEN << 0, 2000 >> ELSE << >>
    /\ trees = << 5000, 20000 >>
    /\ buildings = << 5000, 30000 >>
    /\ startScreen = TRUE /\ gameOverScreen = FALSE /\ highScoreScreen = FALSE
    /\ frames = 0 /\ keys = 0 /\ nextId = 1 /\ jumpFrames = 0
    /\ last = [ op |-> "init", key |-> "", pre |-> "Idle", dt |-> 0,
                chk |-> NoCheck ]

\* a browser without the item, or with an item that cannot be parsed
Stores == { NoStore, BadStore }

Init == InitWith(Stores)

\* the START GAME button, on the start screen
StartGame ==
    /\ startScreen
    /\ Install(StartGameOn(State))
    /\ Did("startGame", "", 0, NoCheck)
    /\ UNCHANGED << frames, keys, jumpFrames, pool >>

\* the Restart and Play Again buttons, on the game-over and high-score screens
RestartGame ==
    /\ gameOverScreen \/ highScoreScreen
    /\ Install(RestartGameOn(State))
    /\ Did("restartGame", "", 0, NoCheck)
    /\ UNCHANGED << frames, keys, jumpFrames, pool >>

\* a keydown event; at most one is delivered between two animation frames
OnKeyDown(key) ==
    /\ mounted
    /\ keys = 0
    /\ Install(OnKeyDownOn(State, key))
    /\ keys' = keys + 1
    /\ jumpFrames' = IF ~isJumping /\ isJumping' THEN 0 ELSE jumpFrames
    /\ Did("keydown", key, 0, NoCheck)
    /\ UNCHANGED << frames, pool >>

\* the Submit Score button, on the game-over screen
SubmitHighScore(name, written, maxScores) ==
    /\ variant = "lives" /\ gameOverScreen
    /\ BagCardinality(pool) < maxScores
    /\ Install(SubmitHighScoreOn(State, name, written))
    /\ pool' = IF name = "" THEN pool
               ELSE pool (+) SetToBag({ Floor(score) })
    /\ Did("submitHighScore", name, 0, NoCheck)
    /\ UNCHANGED << frames, keys, jumpFrames >>

SubmitStep(maxScores) ==
    \E name \in Names, written \in BOOLEAN :
        SubmitHighScore(name, written, maxScores)

Animate(dt, sp, maxFrames) ==
    /\ mounted
    /\ gameActive => frames < maxFrames
    /\ LET s == AnimateOn(State, dt, sp)
       IN  /\ Install(s)
           /\ Did("animate", "", dt, s.chk)
           /\ jumpFrames' = IF s.chk.ran /\ isJumping
                             THEN jumpFrames + 1 ELSE jumpFrames
    /\ frames' = IF gameActive THEN frames + 1 ELSE frames
    /\ keys' = 0
    /\ UNCHANGED pool

KeyStep(K) == \E key \in K : OnKeyDown(key)

FrameStep(D, S, maxFrames) == \E dt \in D, sp \in S : Animate(dt, sp, maxFrames)

-----------------------------------------------------------------------------
(* Spec: every key, a short and a long frame, three obstacle draws *)

DtSet == { 1000, 527000 }

Spawns == { [ lane |-> 1, kind |-> "car" ],
            [ lane |-> 1, kind |-> "barrier" ],
            [ lane |-> 2, kind |-> "rocket" ] }

Next ==
    \/ StartGame
    \/ RestartGame
    \/ KeyStep(AllKeys)
    \/ FrameStep(DtSet, Spawns, MaxFrames)

Spec == Init /\ [][Next]_vars

-----------------------------------------------------------------------------
(* SpecSession: whole sessions, from the start screen to game over and      *)
(* beyond a restart, with the keys and frames a session needs to get there *)

SessionKeys == { "ArrowDown", "ArrowLeft", " " }

SessionDtSet == { 270000, 527000 }

SessionSpawns == { [ lane |-> 1, kind |-> "car" ] }

NextSession ==
    \/ StartGame
    \/ RestartGame
    \/ SubmitStep(MaxSessionScores)
    \/ KeyStep(SessionKeys)
    \/ FrameStep(SessionDtSet, SessionSpawns, MaxSessionFrames)

SpecSession == Init /\ [][NextSession]_vars

-----------------------------------------------------------------------------
(* SpecJump: whole jump arcs, at the frame rate of a display *)

JumpKeys == { "j" }

JumpDtSet == { 16 }

NextJump ==
    \/ StartGame
    \/ KeyStep(JumpKeys)
    \/ FrameStep(JumpDtSet, SessionSpawns, MaxJumpFrames)

SpecJump == Init /\ [][NextJump]_vars

-----------------------------------------------------------------------------
(* What a step shows, stated apart from the operators of updateGame *)

\* an animation frame that finds the session Running
RunningFrame == Session = "Running" /\ last'.op = "animate"

\* the frame reported a collision: a life is lost, or the session ends
Collided ==
    IF variant = "lives" THEN lives' = lives - 1 ELSE gameActive /\ ~gameActive'

\* the jump carries the car above the immunity height during the frame
JumpClear == variant = "lives" /\ isJumping' /\ jumpHeight' > jumpImmunity

\* the distance the frame scrolls the world by
Scroll == PerSecond(speed', last'.dt)

\* two footprints on the road plane intersect
BoxesMeet(px, pz, ox, oz) ==
    /\ 2 * (px - ox) < playerWidth + obstacleWidth
    /\ 2 * (ox - px) < playerWidth + obstacleWidth
    /\ 2 * (pz - oz) < playerHeight + obstacleHeight
    /\ 2 * (oz - pz) < playerHeight + obstacleHeight

Ids(seq) == { seq[i].id : i \in DOMAIN seq }

-----------------------------------------------------------------------------
(* C1 *)

-----------------------------------------------------------------------------
(* C2 *)

\* C2: a restart from GameOver leaves the session Running, and the first
\* frame after it advances the simulation.
C2_RestartRuns ==
    [][ /\ (Session = "GameOver" /\ last'.op = "restartGame")
              => Session' = "Running"
        /\ (last.op = "restartGame" /\ last.pre = "GameOver"
              /\ last'.op = "animate")
              => (last'.chk.ran /\ speed' > speed) ]_vars

-----------------------------------------------------------------------------
(* C3 *)

\* C3: after a restart from GameOver the score, the elapsed time, the spawn
\* timer, the overtake count and the speed are 0, the lives are 3, there is
\* no obstacle, and the car stands in the centre lane at the origin.
C3_RestartResets ==
    (last.op = "restartGame" /\ last.pre = "GameOver") =>
        /\ score = 0 /\ speed = 0 /\ elapsedTime = 0 /\ lastObstacleTime = 0
        /\ carsOvertaken = 0
        /\ lives = initialLives
        /\ obstacles = << >>
        /\ lane = 1
        /\ player = [ x |-> 0, y |-> 0, z |-> 0 ]

\* the "lives" build was restarted after its last life was lost
C3_Witness ==
    /\ variant = "lives" /\ gameActive
    /\ last.op = "restartGame" /\ last.pre = "GameOver"

-----------------------------------------------------------------------------
(* C4 *)

\* C4: in GameOver nothing but a restart changes the session or the
\* vehicle: keys and frames leave them as they are.
C4_GameOverInert ==
    [][ (Session = "GameOver" /\ last'.op \in { "keydown", "animate" }) =>
          UNCHANGED << gameActive, isPaused, lives, score, lane, speed,
                       isJumping, jumpHeight, jumpVelocity, player,
                       obstacles >> ]_vars

-----------------------------------------------------------------------------
(* C5 *)

\* C5: a frame leaves every road segment, stripe, tree and building either
\* scrolled, or scrolled and moved forward by exactly roadLength.
C5_RecycleByRoadLength ==
    [][ RunningFrame =>
          /\ \A i \in DOMAIN roadSegments : roadSegments'[i] \in
                { roadSegments[i] - Scroll,
                  roadSegments[i] - Scroll + roadLength }
          /\ \A i \in DOMAIN roadStripes : roadStripes'[i] \in
                { roadStripes[i] - Scroll,
                  roadStripes[i] - Scroll + roadLength }
          /\ \A i \in DOMAIN trees : trees'[i] \in
                { trees[i] - Scroll, trees[i] - Scroll + roadLength }
          /\ \A i \in DOMAIN buildings : buildings'[i] \in
                { buildings[i] - Scroll,
                  buildings[i] - Scroll + roadLength } ]_vars

-----------------------------------------------------------------------------
(* C6 *)

\* C6: a Running frame never lowers the score, and in Paused and GameOver
\* no frame and no key changes it; only a restart sets it back to 0.
C6_ScoreMonotone ==
    [][ /\ RunningFrame => score' >= score
        /\ (Session \in { "Paused", "GameOver" }
              /\ last'.op \in { "animate", "keydown" }) => score' = score
        /\ score' < score => (last'.op \in { "restartGame", "startGame" }
                                /\ score' = 0) ]_vars

\* a frame passed while the session was Paused with points on the board
C6_Witness ==
    last.op = "animate" /\ last.pre = "Paused" /\ score > 0

-----------------------------------------------------------------------------
(* C7 *)

\* C7: in the build with lives, a frame that finds an overlap takes exactly
\* one life and removes exactly the obstacle it found (any other obstacle
\* stays unless the scroll carries it behind the camera); the session is
\* then Paused while a life is left, and GameOver at zero.
C7_CollisionHandling ==
    [][ (variant = "lives" /\ RunningFrame /\ last'.chk.hit # 0) =>
          /\ \E i \in DOMAIN obstacles :
                /\ obstacles[i].id = last'.chk.hit
                /\ BoxesMeet(player'.x, player'.z,
                             obstacles[i].x, obstacles[i].z)
          /\ lives' = lives - 1
          /\ last'.chk.hit \notin Ids(obstacles')
          /\ \A i \in DOMAIN obstacles :
                (/\ obstacles[i].id # last'.chk.hit
                 /\ obstacles[i].z - Scroll >= cameraDistance)
                    => obstacles[i].id \in Ids(obstacles')
          /\ Session' = IF lives' > 0 THEN "Paused" ELSE "GameOver" ]_vars

\* the collision that took the last life ended the session
C7_Witness ==
    /\ variant = "lives" /\ last.op = "animate" /\ last.chk.hit # 0
    /\ lives = 0 /\ Session = "GameOver"

-----------------------------------------------------------------------------
(* C8 *)

-----------------------------------------------------------------------------
(* C9 *)

\* C9: a Running frame in which the car is not above the immunity height and
\* an obstacle's footprint meets the car's reports a collision.
C9_OverlapCollides ==
    [][ (/\ RunningFrame
         /\ ~JumpClear
         /\ \E i \in DOMAIN obstacles :
               BoxesMeet(player'.x, player'.z, obstacles[i].x, obstacles[i].z))
          => (Collided /\ last'.chk.hit # 0) ]_vars

\* a frame reported a collision with an obstacle that overlapped the car
C9_Witness ==
    /\ last.op = "animate" /\ last.pre = "Running"
    /\ last.chk.hit # 0 /\ last.chk.hit \in last.chk.overlap
    /\ ~last.chk.immune

-----------------------------------------------------------------------------
(* C10 *)

\* frames of a whole jump: one to the cap, one at the cap, and the fall
JumpArcFrames ==
    2 + CHOOSE k \in 0..maxJumpHeight :
          /\ jumpGravity * k * (k + 1) >= 2 * maxJumpHeight
          /\ \A j \in 0..(k - 1) : jumpGravity * j * (j + 1) < 2 * maxJumpHeight

\* C10: a jump is over within JumpArcFrames Running frames of its start:
\* the car is in the air for fewer frames than that, never above the cap,
\* and on the ground the jump height and velocity are 0.
C10_JumpLands ==
    /\ isJumping => (jumpFrames < JumpArcFrames /\ jumpHeight <= maxJumpHeight)
    /\ ~isJumping => (jumpHeight = 0 /\ jumpVelocity = 0)

\* a jump has landed on the last frame of its arc
C10_Witness ==
    /\ variant = "lives" /\ ~isJumping /\ jumpHeight = 0
    /\ jumpFrames = JumpArcFrames

-----------------------------------------------------------------------------
(* C11 *)

\* a key that starts a jump is pressed while the session is Running and a
\* jump is in flight
JumpKeyInFlight ==
    /\ variant = "lives" /\ Session = "Running" /\ isJumping
    /\ last'.op = "keydown" /\ last'.key \in { " ", "j" }

\* C11, as the specification words it: Space or J pressed during a jump
\* changes no variable of the program.
C11_JumpInFlightNoOp ==
    [][ JumpKeyInFlight => UNCHANGED progVars ]_vars

\* C11: Space or J pressed during a jump leaves the jump (flag, height,
\* velocity) and every other variable as it is, except that Space still
\* brakes: it lowers the speed by brakeForce * 5, not below 0.
C11_JumpInFlightKeepsJump ==
    [][ JumpKeyInFlight =>
          /\ UNCHANGED << variant, score, gameActive, lane, elapsedTime,
                          lastObstacleTime, carsOvertaken, lives, isJumping,
                          jumpHeight, jumpVelocity, isPaused, player,
                          obstacles, roadSegments, roadStripes, trees,
                          buildings, startScreen, gameOverScreen,
                          highScoreScreen, finalScore, highScores, stored,
               mounted >>
          /\ speed' = IF last'.key = " "
                      THEN (IF speed > brakeForce * 5
                            THEN speed - brakeForce * 5 ELSE 0)
                      ELSE speed ]_vars

\* Space was pressed in mid-air, above the ground, in a Running session
C11_Witness ==
    /\ variant = "lives" /\ last.op = "keydown" /\ last.key = " "
    /\ last.pre = "Running" /\ isJumping /\ jumpHeight > 0

-----------------------------------------------------------------------------
(* SpecSpeed: the whole range of the speed, reached by bursts of throttle   *)
(* and brake keys between frames that follow each other at once            *)

MaxSpeedFrames == 2     \* updateGame calls of a run of SpecSpeed

SpeedKeys == { "ArrowUp", "ArrowDown" }

SpeedDtSet == { 0 }

\* a keydown event of a burst: any number of them arrives between two frames
OnKeyDownBurst(key) ==
    /\ mounted
    /\ Install(OnKeyDownOn(State, key))
    /\ Did("keydown", key, 0, NoCheck)
    /\ UNCHANGED << frames, keys, jumpFrames, pool >>

BurstStep(K) == \E key \in K : OnKeyDownBurst(key)

NextSpeed ==
    \/ StartGame
    \/ BurstStep(SpeedKeys)
    \/ FrameStep(SpeedDtSet, SessionSpawns, MaxSpeedFrames)

SpecSpeed == Init /\ [][NextSpeed]_vars

-----------------------------------------------------------------------------
(* C12 *)

\* C12: the speed lies in [0, maxSpeed] in every reachable state, after
\* every frame and after every throttle or brake key between frames.
C12_SpeedInRange == 0 <= speed /\ speed <= maxSpeed

\* after a frame, the throttle key has brought the speed to maxSpeed
C12_Witness ==
    /\ last.op = "keydown" /\ last.key = "ArrowUp"
    /\ speed = maxSpeed /\ frames > 0

-----------------------------------------------------------------------------
(* C13 *)

\* the speed after one frame, as the specification states it
TickSpeed(v) ==
    LET a == IF 10 * v < 4 * maxSpeed THEN v + acceleration ELSE v
        d == Decelerate(a)
    IN  IF d < 0 THEN 0 ELSE IF d > maxSpeed THEN maxSpeed ELSE d

\* C13: a Running frame turns the speed v into clamp((v + acceleration) *
\* deceleration) when v < 0.4 * maxSpeed and into clamp(v * deceleration)
\* otherwise, whatever dt is; from speed 0 it gives acceleration *
\* deceleration.
C13_TickSpeed ==
    [][ RunningFrame =>
          /\ speed' = TickSpeed(speed)
          /\ speed = 0 => speed' = Decelerate(acceleration) ]_vars

\* a frame has run at maxSpeed, above the threshold, where the speed is not
\* raised before it is multiplied
C13_Witness ==
    /\ last.op = "animate" /\ last.pre = "Running"
    /\ speed = Decelerate(maxSpeed)

-----------------------------------------------------------------------------
(* SpecOvertake: traffic in the next lane, which the car passes and then    *)
(* keeps in sight for further frames, and cars in its own lane that follow  *)
(* each other closely                                                       *)

MaxOvertakeFrames == 4  \* updateGame calls of a run of SpecOvertake

OvertakeKeys == { "ArrowDown" }

OvertakeDtSet == { 2000, 527000 }

OvertakeSpawns == { [ lane |-> 1, kind |-> "car" ],
                    [ lane |-> 2, kind |-> "rocket" ],
                    [ lane |-> 2, kind |-> "barrier" ] }

NextOvertake ==
    \/ StartGame
    \/ KeyStep(OvertakeKeys)
    \/ FrameStep(OvertakeDtSet, OvertakeSpawns, MaxOvertakeFrames)

SpecOvertake == Init /\ [][NextOvertake]_vars

-----------------------------------------------------------------------------
(* C14 *)

\* obstacles before the step that can still be awarded
Awardable ==
    { i \in DOMAIN obstacles :
        ~obstacles[i].overtaken /\ obstacles[i].kind \in { "car", "rocket" } }

\* ... that the step has flagged
Flagged ==
    { i \in Awardable : \E j \in DOMAIN obstacles' :
        obstacles'[j].id = obstacles[i].id /\ obstacles'[j].overtaken }

\* ... that the step has taken off the road
Gone == { i \in Awardable : obstacles[i].id \notin Ids(obstacles') }

\* C14: the overtaken flag of an obstacle is never reset; a frame awards the
\* overtake bonus and the count only for obstacles that were not flagged
\* before it, once each, and flags those that stay on the road; no key
\* awards anything; a barrier is never flagged.
C14_OvertakenLatch ==
    [][ /\ \A i \in DOMAIN obstacles : \A j \in DOMAIN obstacles' :
              (obstacles'[j].id = obstacles[i].id /\ obstacles[i].overtaken)
                  => obstacles'[j].overtaken
        /\ \A j \in DOMAIN obstacles' :
              obstacles'[j].kind = "barrier" => ~obstacles'[j].overtaken
        /\ last'.op = "keydown" => UNCHANGED << carsOvertaken, score >>
        /\ last'.op = "animate" =>
              /\ Cardinality(Flagged) <= carsOvertaken' - carsOvertaken
              /\ carsOvertaken' - carsOvertaken
                    <= Cardinality(Flagged) + Cardinality(Gone)
              /\ score' - score =
                    (IF last'.chk.ran
                     THEN PerSecondTenth(speed', last'.dt) ELSE 0)
                    + overtakeBonus * (carsOvertaken' - carsOvertaken) ]_vars

\* a Running frame has found a flagged obstacle behind the car and has left
\* the count of the one award at 1, and a barrier behind the car unflagged
C14_Witness ==
    /\ last.op = "animate" /\ last.pre = "Running"
    /\ last.chk.passed # {}
    /\ carsOvertaken = Cardinality(last.chk.passed)
    /\ \E j \in DOMAIN obstacles :
          obstacles[j].kind = "barrier" /\ obstacles[j].z < player.z

-----------------------------------------------------------------------------
(* C15 *)

\* C15: the lane is 0, 1 or 2 in every reachable state; a steering key in a
\* Running session moves it by exactly one step, or leaves it where it is
\* when it is at the bound in that direction, and changes nothing else.
C15_LaneBounds ==
    [][ /\ lane \in 0..2 /\ lane' \in 0..2
        /\ (Session = "Running" /\ last'.op = "keydown"
              /\ last'.key \in { "ArrowRight", "ArrowLeft" }) =>
              /\ lane' = IF last'.key = "ArrowRight"
                         THEN (IF lane = 0 THEN 0 ELSE lane - 1)
                         ELSE (IF lane = 2 THEN 2 ELSE lane + 1)
              /\ UNCHANGED << variant, score, speed, gameActive, elapsedTime,
                              lastObstacleTime, carsOvertaken, lives,
                              isJumping, jumpHeight, jumpVelocity, isPaused,
                              player, obstacles, roadSegments, roadStripes,
                              trees, buildings, startScreen, gameOverScreen,
                              highScoreScreen, highScores, stored,
                              mounted >> ]_vars

\* the key towards lane 2 was pressed with the lane already at 2: the car
\* was on its way there in the one frame before
C15_Witness ==
    /\ last.op = "keydown" /\ last.key = "ArrowLeft" /\ last.pre = "Running"
    /\ frames = 1 /\ player.x > 0 /\ lane = 2

-----------------------------------------------------------------------------
(* SpecScores: saveHighScore on its own, applied to the lists a browser can *)
(* hold and to scores of every rank                                         *)

MaxScores == 8          \* scores loaded and submitted in a run of SpecScores

Entry(name, sc) == [ name |-> name, score |-> sc ]

\* no item; a list this program wrote; lists another writer left behind,
\* unsorted and longer than the cap
ScoreStores ==
    { NoStore,
      ListStore(<< Entry("bob", 10), Entry("bob", 2), Entry("cy", 2),
                   Entry("bob", 1), Entry("cy", 0) >>),
      ListStore(<< Entry("bob", 1), Entry("cy", 10) >>),
      ListStore(<< Entry("bob", 1), Entry("cy", 5), Entry("bob", 3),
                   Entry("cy", 7), Entry("bob", 2), Entry("cy", 9) >>) }

InitScores == InitWith(ScoreStores)

SubmittedScores == { 0, 150, 299, 1000 }

\* a call of saveHighScore(name, score)
SaveHighScore(name, sc, written) ==
    /\ variant = "lives"
    /\ BagCardinality(pool) < MaxScores
    /\ Install(SaveHighScoreOn(State, name, sc, written))
    /\ pool' = pool (+) SetToBag({ Floor(sc) })
    /\ Did("saveHighScore", name, 0, NoCheck)
    /\ UNCHANGED << frames, keys, jumpFrames >>

SaveStep ==
    \E sc \in SubmittedScores, written \in BOOLEAN :
        SaveHighScore("ann", sc, written)

NextScores == SaveStep

SpecScores == InitScores /\ [][NextScores]_vars

-----------------------------------------------------------------------------
(* C16 *)

\* the scores of the pool that are not on the list
OffTheList == pool (-) ScoreBag(highScores)

\* C16: after a submission the list is sorted by score, highest first, has
\* at most 5 entries, and holds the 5 highest of the scores loaded and
\* submitted so far (all of them while they are fewer than 5).
C16_TopFive ==
    last.op \in { "saveHighScore", "submitHighScore" } =>
        /\ \A i \in 1..(Len(highScores) - 1) :
              highScores[i].score >= highScores[i + 1].score
        /\ Len(highScores) <= maxHighScores
        /\ Len(highScores) = IF BagCardinality(pool) < maxHighScores
                             THEN BagCardinality(pool) ELSE maxHighScores
        /\ ScoreBag(highScores) \sqsubseteq pool
        /\ \A v \in BagToSet(OffTheList) : \A i \in DOMAIN highScores :
              highScores[i].score >= v

\* a list of 5 has turned away a score, and holds a submitted score above
\* its lowest entry
C16_Witness ==
    /\ last.op = "saveHighScore"
    /\ Len(highScores) = maxHighScores
    /\ BagToSet(OffTheList) # {}
    /\ \E i \in DOMAIN highScores :
          /\ highScores[i].name = "ann"
          /\ highScores[i].score > highScores[maxHighScores].score

-----------------------------------------------------------------------------
(* C17 *)

\* C17: a failure of the high-score storage leaves the session alone: with
\* an item that cannot be parsed the game still starts and runs (its frames
\* and keys are served), and a submission, whether its write throws or
\* not, changes neither score nor lives nor the session state.
C17_StorageFailureHarmless ==
    [][ /\ gameActive' => mounted'
        /\ last'.op = "submitHighScore" =>
              (UNCHANGED << score, lives, gameActive, isPaused >>
                 /\ Session' = Session) ]_vars

-----------------------------------------------------------------------------
(* C18 *)

\* the obstacles that meet the car when the frame checks for collisions
Meeting ==
    { i \in DOMAIN obstacles :
        BoxesMeet(player'.x, player'.z, obstacles[i].x, obstacles[i].z) }

\* the obstacles that leave the list although the scroll of the frame does
\* not carry them behind the camera
Struck ==
    { i \in DOMAIN obstacles :
        /\ obstacles[i].z - Scroll >= cameraDistance
        /\ obstacles[i].id \notin Ids(obstacles') }

\* C18: a frame takes at most one life and removes at most one obstacle by
\* collision, and the obstacle it collides with is the one spawned first
\* among those that meet the car.
C18_OneCollisionPerFrame ==
    [][ last'.op = "animate" =>
          /\ lives' >= lives - 1
          /\ Cardinality(Struck) <= 1
          /\ \A i \in Struck : obstacles[i].id = last'.chk.hit
          /\ last'.chk.hit # 0 =>
                \E i \in Meeting :
                    /\ obstacles[i].id = last'.chk.hit
                    /\ \A k \in Meeting : i <= k
                    /\ \A k \in Meeting : obstacles[i].id <= obstacles[k].id ]_vars

\* a frame has found two obstacles on the car, has collided with one and has
\* left the other on the road
C18_Witness ==
    /\ variant = "lives" /\ last.op = "animate" /\ last.chk.hit # 0
    /\ Cardinality(last.chk.overlap) >= 2
    /\ lives = initialLives - 1
    /\ \E j \in DOMAIN obstacles :
          obstacles[j].id \in last.chk.overlap /\ obstacles[j].id > last.chk.hit

-----------------------------------------------------------------------------
(* C19 *)

\* C19: a frame of a Paused session updates nothing: the elapsed time, the
\* time of the last spawn, speed, jump, positions, score and obstacles stay
\* as they are, so that a pause does not count towards the next spawn.
C19_PausedFrameInert ==
    [][ (Session = "Paused" /\ last'.op = "animate") =>
          UNCHANGED << elapsedTime, lastObstacleTime, speed, isJumping,
                       jumpHeight, jumpVelocity, player, score, carsOvertaken,
                       obstacles, roadSegments, roadStripes, trees,
                       buildings >> ]_vars

-----------------------------------------------------------------------------
(* C20 *)

\* C20: in a Paused session the steering, throttle, brake and jump keys
\* change nothing, and Space only clears the pause flag, which makes the
\* session Running: it does not brake and does not start a jump.
C20_PausedKeys ==
    [][ (Session = "Paused" /\ last'.op = "keydown") =>
          /\ isPaused' = (last'.key # " ")
          /\ Session' = IF last'.key = " " THEN "Running" ELSE "Paused"
          /\ UNCHANGED << variant, score, speed, gameActive, lane,
                          elapsedTime, lastObstacleTime, carsOvertaken, lives,
                          isJumping, jumpHeight, jumpVelocity, player,
                          obstacles, roadSegments, roadStripes, trees,
                          buildings, startScreen, gameOverScreen,
                          highScoreScreen, highScores, stored,
                          mounted >> ]_vars

\* Space has resumed a Paused session with the car on the ground and moving
C20_Witness ==
    /\ last.op = "keydown" /\ last.key = " " /\ last.pre = "Paused"
    /\ Session = "Running" /\ speed > 0 /\ ~isJumping

-----------------------------------------------------------------------------
(* C21 *)

\* C21: the lives stay between 0 and 3, a Running or Paused session has at
\* least one life, and in the build with lives the session enters GameOver
\* exactly in the frame whose collision takes the last life.
C21_LivesBounds ==
    [][ /\ lives \in 0..initialLives /\ lives' \in 0..initialLives
        /\ Session' \in { "Running", "Paused" } => lives' >= 1
        /\ variant = "lives" =>
              ((Session # "GameOver" /\ Session' = "GameOver") <=>
                  (/\ last'.op = "animate" /\ Session = "Running"
                   /\ last'.chk.hit # 0
                   /\ lives = 1 /\ lives' = 0)) ]_vars

\* a session that lost its last life has been restarted with all three
C21_Witness ==
    /\ variant = "lives" /\ last.op = "restartGame" /\ last.pre = "GameOver"
    /\ lives = initialLives /\ gameActive
    /\ highScoreScreen = FALSE /\ Len(highScores) > 0

-----------------------------------------------------------------------------
(* SpecSpawn: the spawn gate at top speed, where the interval is shortest *)

MaxSpawnFrames == 8     \* updateGame calls of a run of SpecSpawn

SpawnKeys == { "ArrowUp" }

SpawnDtSet == { 250, 300 }

\* the throttle is held down: key repeat has brought the speed back to
\* maxSpeed before every frame
HeldThrottleFrame(D, S, maxFrames) ==
    /\ gameActive => speed = maxSpeed
    /\ FrameStep(D, S, maxFrames)

NextSpawn ==
    \/ StartGame
    \/ BurstStep(SpawnKeys)
    \/ HeldThrottleFrame(SpawnDtSet, SessionSpawns, MaxSpawnFrames)

SpecSpawn == Init /\ [][NextSpawn]_vars

-----------------------------------------------------------------------------
(* C22 *)

\* the frame appended a new obstacle, at the far end of the road
Spawned ==
    /\ nextId' = nextId + 1
    /\ \E i \in DOMAIN obstacles' :
           /\ obstacles'[i].id = nextId
           /\ obstacles'[i].z = roadLength \div 2
           /\ ~obstacles'[i].overtaken

\* elapsedTime - lastObstacleTime >
\*     obstacleInterval - (speed / maxSpeed) * (obstacleInterval - 0.5),
\* with the time and the speed that the frame has computed
GateOpen ==
    100 * (elapsedTime' - lastObstacleTime) >
        100 * obstacleInterval - 3 * speed'

\* C22: a frame of a Running session spawns an obstacle exactly when the time
\* since the last spawn exceeds the interval that shrinks with the speed, and
\* then stamps lastObstacleTime with elapsedTime; a frame spawns at most one
\* obstacle, and a spawn comes more than 0.5 s after the previous one.
C22_SpawnGate ==
    [][ /\ nextId' \in { nextId, nextId + 1 }
        /\ RunningFrame =>
              /\ Spawned <=> GateOpen
              /\ Spawned => /\ lastObstacleTime' = elapsedTime'
                            /\ elapsedTime' - lastObstacleTime > 500
              /\ ~Spawned => /\ nextId' = nextId
                             /\ lastObstacleTime' = lastObstacleTime
                             /\ Ids(obstacles') \subseteq Ids(obstacles) ]_vars

\* at top speed the second obstacle of the session has been spawned, 1.2 s
\* after its start and 0.6 s after the first
C22_Witness ==
    /\ last.op = "animate" /\ last.pre = "Running" /\ last.dt = 300
    /\ nextId = 3
    /\ lastObstacleTime = elapsedTime /\ elapsedTime = 1200

-----------------------------------------------------------------------------
(* C23 *)

\* the obstacle of `seq` with the given id
ObstacleOf(seq, id) == seq[CHOOSE i \in DOMAIN seq : seq[i].id = id]

\* C23: every live obstacle lies between the camera's clip plane and the
\* spawn line; a frame of a Running session moves each obstacle it keeps back
\* by exactly its scroll, removes the ones that fall behind the clip plane,
\* and no step moves a live obstacle forward or brings a removed one back.
C23_ObstacleRange ==
    [][ /\ \A i \in DOMAIN obstacles' :
               /\ cameraDistance <= obstacles'[i].z
               /\ obstacles'[i].z <= roadLength \div 2
        /\ Ids(obstacles') \subseteq Ids(obstacles) \cup { nextId }
        /\ \A id \in Ids(obstacles) \cap Ids(obstacles') :
               ObstacleOf(obstacles', id).z <= ObstacleOf(obstacles, id).z
        /\ RunningFrame =>
              \A i \in DOMAIN obstacles :
                  /\ obstacles[i].z - Scroll < cameraDistance
                         => obstacles[i].id \notin Ids(obstacles')
                  /\ obstacles[i].id \in Ids(obstacles')
                         => ObstacleOf(obstacles', obstacles[i].id).z =
                                obstacles[i].z - Scroll
                  /\ obstacles[i].id \notin Ids(obstacles')
                         => \/ obstacles[i].z - Scroll < cameraDistance
                            \/ /\ variant = "lives"
                               /\ last'.chk.hit = obstacles[i].id ]_vars

\* the first obstacle has left the road behind the camera without a
\* collision, and the second one is live
C23_Witness ==
    /\ variant = "lives" /\ lives = initialLives
    /\ last.op = "animate" /\ last.pre = "Running" /\ last.chk.hit = 0
    /\ nextId = 3 /\ Ids(obstacles) = { 2 }

-----------------------------------------------------------------------------
(* C24 *)

\* the frame integrates a jump whose step would carry the car above the cap
OverCap ==
    /\ variant = "lives" /\ RunningFrame /\ isJumping
    /\ jumpHeight + jumpVelocity > maxJumpHeight

\* C24: the jump height stays in [0, maxJumpHeight]; a frame whose step would
\* exceed the cap leaves the car in the air at the cap with velocity 0, and
\* from a velocity that is not upward a frame never raises the car.
C24_JumpCap ==
    [][ /\ 0 <= jumpHeight' /\ jumpHeight' <= maxJumpHeight
        /\ 0 <= player'.y /\ player'.y <= maxJumpHeight
        /\ OverCap => /\ isJumping'
                      /\ jumpHeight' = maxJumpHeight
                      /\ jumpVelocity' = 0
        /\ (RunningFrame /\ isJumping /\ jumpVelocity <= 0)
               => /\ jumpHeight' <= jumpHeight
                  /\ jumpVelocity' <= 0 ]_vars

\* two frames after the clamp at the cap the car is falling from it
C24_Witness ==
    /\ variant = "lives" /\ isJumping /\ jumpFrames = 3
    /\ jumpHeight = maxJumpHeight - jumpGravity
    /\ jumpVelocity = 0 - 2 * jumpGravity

-----------------------------------------------------------------------------
(* C25 *)

\* C25: in the build without lives a frame that detects a collision ends the
\* session (gameActive false, game-over screen up), and in the ended session
\* no animation frame and no key changes any variable of the program; only
\* Restart leaves it.
C25_CollisionEndsSession ==
    [][ variant = "simple" =>
          /\ (RunningFrame /\ last'.chk.hit # 0)
                 => (~gameActive' /\ gameOverScreen' /\ Session' = "GameOver")
          /\ (Session = "GameOver" /\ last'.op \in { "animate", "keydown" })
                 => UNCHANGED progVars
          /\ (Session = "GameOver" /\ Session' # "GameOver")
                 => last'.op = "restartGame" ]_vars

\* after the collision that ended the session a lane key was pressed, and
\* the session is still over
C25_Witness ==
    /\ variant = "simple" /\ Session = "GameOver"
    /\ last.op = "keydown" /\ last.pre = "GameOver"
    /\ last.key \in { "ArrowLeft", "ArrowRight", "ArrowUp" }
    /\ frames > 0

-----------------------------------------------------------------------------
(* C26 *)

\* the frame of a Running session in which checkCollisions reported a hit
CollisionFrame == RunningFrame /\ last'.chk.hit # 0

\* the stages after the collision check left the score, the obstacles that
\* were not hit and the spawner as they were
RestOfFrameInert ==
    /\ score' = score /\ carsOvertaken' = carsOvertaken
    /\ nextId' = nextId
    /\ lastObstacleTime' = lastObstacleTime
    /\ \A i \in DOMAIN obstacles :
           obstacles[i].id # last'.chk.hit
               => \E j \in DOMAIN obstacles' : obstacles'[j] = obstacles[i]

\* C26, as the specification words it: the frame that collides changes
\* nothing after the collision (no score, no bonus, no obstacle moved,
\* removed or spawned), and the score that a submission saves is the final
\* score shown on the game-over screen.
C26_CollisionFrameInert ==
    [][ /\ CollisionFrame => RestOfFrameInert
        /\ (last'.op = "submitHighScore" /\ last'.key # "")
               => pool' = pool (+) SetToBag({ finalScore }) ]_vars

-----------------------------------------------------------------------------
(* SpecRestart: a session that loses its last life late in a jump *)

MaxRestartFrames == 30  \* updateGame calls of a run of SpecRestart

RestartKeys == { "ArrowDown", " ", "j" }

\* clock.getDelta() of the first updateGame calls: long frames, which carry an
\* obstacle from the spawn line to the car in one step
RestartLongDts == << { 270000, 527000 }, { 270000, 527000 },
                     { 270000, 527000 }, { 270000, 527000 } >>

\* and of every later call: the frame time of a 240 Hz display
RestartShortDts == { 4 }

RestartDtSet ==
    IF frames < Len(RestartLongDts)
    THEN RestartLongDts[frames + 1] ELSE RestartShortDts

\* the keys are pressed during the long frames and right after them
RestartKeyStep ==
    /\ frames <= Len(RestartLongDts)
    /\ BurstStep(RestartKeys)

NextRestart ==
    \/ StartGame
    \/ RestartGame
    \/ RestartKeyStep
    \/ FrameStep(RestartDtSet, SessionSpawns, MaxRestartFrames)

SpecRestart == Init /\ [][NextRestart]_vars

-----------------------------------------------------------------------------
(* C27 *)

\* C27, as the specification words it: restartGame leaves the jump flag false
\* and the jump height and velocity 0, whatever the state the last session
\* ended in.
C27_RestartResetsJump ==
    [][ last'.op = "restartGame" =>
          /\ ~isJumping'
          /\ jumpHeight' = 0
          /\ jumpVelocity' = 0 ]_vars

-----------------------------------------------------------------------------
(* C28 *)

\* the obstacle leaves the list in this frame behind the camera, not as the
\* obstacle that the frame's collision removed
LeavesBehindCamera(o) ==
    /\ RunningFrame
    /\ o.id \notin Ids(obstacles')
    /\ ~(variant = "lives" /\ last'.chk.hit = o.id)

\* C28, as the specification words it: a car or rocket that leaves the list
\* behind the camera was credited as overtaken, in an earlier frame or by the
\* updateScore call of the frame that removes it.
C28_CreditedBeforeRemoval ==
    [][ \A i \in DOMAIN obstacles :
            (obstacles[i].kind \in { "car", "rocket" }
                 /\ LeavesBehindCamera(obstacles[i]))
                => (obstacles[i].overtaken \/ obstacles[i].z < player.z) ]_vars

-----------------------------------------------------------------------------
(* C29 *)

\* C29, as the specification words it: the obstacle that a frame's collision
\* check hits has not been credited as overtaken before.
C29_CreditedNeverCollides ==
    [][ (RunningFrame /\ last'.chk.hit # 0)
            => ~ObstacleOf(obstacles, last'.chk.hit).overtaken ]_vars

-----------------------------------------------------------------------------
(* C30 *)

\* the obstacle and the car overlap laterally, before and after the frame
SameTrack(o) ==
    /\ 2 * (player.x - o.x) < playerWidth + obstacleWidth
    /\ 2 * (o.x - player.x) < playerWidth + obstacleWidth
    /\ 2 * (player'.x - o.x) < playerWidth + obstacleWidth
    /\ 2 * (o.x - player'.x) < playerWidth + obstacleWidth

\* the obstacle's box lies wholly ahead of the car's box
EntirelyAhead(o) == 2 * (o.z - player.z) >= playerHeight + obstacleHeight

\* after this frame's scroll the obstacle's box lies wholly behind the car's
EntirelyBehindAfter(o) ==
    2 * (player'.z - (o.z - Scroll)) >= playerHeight + obstacleHeight

\* C30, as the specification words it: while the car is not jump-immune, no
\* obstacle on the car's track goes from wholly ahead of the car to wholly
\* behind it in one frame.
C30_NoTunnelling ==
    [][ (RunningFrame /\ ~JumpClear) =>
            \A i \in DOMAIN obstacles :
                ~(/\ SameTrack(obstacles[i])
                  /\ EntirelyAhead(obstacles[i])
                  /\ EntirelyBehindAfter(obstacles[i])) ]_vars

====
